---- MODULE Spec2Model ----
(***************************************************************************)
(* A model of fastq_composition.py: CompositionAgent's reference loading   *)
(* (__init__, _load_references), the record loop of inspect_file and       *)
(* inspect_url, and the classification of _calculate_composition.          *)
(*                                                                         *)
(* Numbers.  A containment is the exact fraction common / len(sketch); it  *)
(* is kept as a numerator over the sketch length.  round(x, 4) yields a    *)
(* count of ten-thousandths (0.05 is 500, 1.0 is 10000).  The sketch       *)
(* lengths of the model are never multiples of 32, so no value lies on a   *)
(* rounding tie and the float result equals the exact one.                 *)
(***************************************************************************)
EXTENDS Integers, Sequences, FiniteSets, TLC

VARIABLES
    pc,             \* position of the running call
    result,         \* the record a call returned, or Pending
    calc_in,        \* arguments of a direct _calculate_composition call
    refs,           \* self.refs: insertion-ordered mapping name -> signature
    mode,           \* "file" (inspect_file) or "url" (inspect_url)
    read_limit,     \* the read_limit argument
    batch,          \* the lines of the record being assembled
    sketch,         \* the MinHash sketch: a set of retained hashes
    reads_seen,     \* reads_seen
    pulled,         \* lines pulled from the source so far
    ref_dir_exists, \* self.ref_dir.exists()
    sig_files,      \* list(self.ref_dir.glob("*.sig")), in glob order
    load_i,         \* index of the next sig_path of the loading loop
    stderr,         \* lines printed to sys.stderr by the loading loop
    raised          \* the exception the running call caught or raised, or "none"

vars == <<pc, result, calc_in, refs, mode, read_limit, batch, sketch,
          reads_seen, pulled, ref_dir_exists, sig_files, load_i, stderr, raised>>

---------------------------------------------------------------------------
(* Bounds of the model. *)

\* sketch lengths 0..MaxSmallLen are enumerated with every common count
MaxSmallLen == 5
\* references of a directly classified library
MaxRefs == 2
\* lines the source may yield before it ends
MaxLines == 9
\* largest read_limit argument
MaxReadLimit == 2
\* .sig files in the reference directory
MaxFiles == 2

(* Program constants. *)

\* round(containment, 4): ten-thousandths
Scale4 == 10000
\* containment > 0.01, as NoiseNum / NoiseDen
NoiseNum == 1
NoiseDen == 100
\* composition.get('Phix', 0) > 0.05, in ten-thousandths
PhixThreshold == 500
\* unknown > 0.5, as 1 / HalfDen
HalfDen == 2
\* len(batch) == 4
RecordLines == 4
\* ksize=31, the default of __init__
DefaultKsize == 31

Pending == [pending |-> TRUE]

Max(a, b) == IF a >= b THEN a ELSE b

---------------------------------------------------------------------------
(* _calculate_composition *)

\* common / len(sketch) if len(sketch) > 0 else 0
Containment(common, n) ==
    IF n > 0 THEN [num |-> common, den |-> n] ELSE [num |-> 0, den |-> 1]

\* round(x, 4) of the fraction x, in ten-thousandths (round half to even)
Round4(x) ==
    LET q == (x.num * Scale4) \div x.den
        r == (x.num * Scale4) % x.den
    IN  IF 2 * r < x.den THEN q
        ELSE IF 2 * r > x.den THEN q + 1
        ELSE IF q % 2 = 0 THEN q ELSE q + 1

AboveNoiseGe(x) == x.num * NoiseDen >= NoiseNum * x.den
\* containment > 0.01
AboveNoise(x) == x.num * NoiseDen > NoiseNum * x.den

\* the entries of the loop over self.refs.items() that pass the noise filter
Retained(n, commons) ==
    SelectSeq(commons, LAMBDA e : AboveNoise(Containment(e.common, n)))

\* composition: insertion-ordered mapping name -> round(containment, 4)
Composition(n, commons) ==
    LET kept == Retained(n, commons)
    IN  [i \in 1..Len(kept) |->
            [name |-> kept[i].name,
             value |-> Round4(Containment(kept[i].common, n))]]

RECURSIVE SumCommon(_)
SumCommon(s) == IF Len(s) = 0 THEN 0 ELSE s[1].common + SumCommon(Tail(s))

\* total_explained: the sum of the retained containments (not rounded)
TotalExplained(n, commons) ==
    [num |-> SumCommon(Retained(n, commons)), den |-> IF n > 0 THEN n ELSE 1]

UnknownNoClamp(total) == [num |-> total.den - total.num, den |-> total.den]
\* unknown = max(0, 1.0 - total_explained)
Unknown(total) == [num |-> Max(0, total.den - total.num), den |-> total.den]

\* composition.get(key, default)
Get(composition, key, default) ==
    IF \E i \in 1..Len(composition) : composition[i].name = key
    THEN (CHOOSE e \in {composition[i] : i \in 1..Len(composition)} :
              e.name = key).value
    ELSE default

Keys(composition) == [i \in 1..Len(composition) |-> composition[i].name]

RECURSIVE Join(_, _)
\* sep.join(names)
Join(sep, names) ==
    IF Len(names) = 0 THEN ""
    ELSE IF Len(names) = 1 THEN names[1]
    ELSE names[1] \o sep \o Join(sep, Tail(names))

IsMixed(composition) == Len(composition) > 1

PhixContamination(composition) == Get(composition, "Phix", 0) > PhixThreshold

CrossContamination(composition) ==
    IsMixed(composition) /\ ~PhixContamination(composition)

IsContaminated(composition) ==
    PhixContamination(composition) \/ CrossContamination(composition)

HighUnknownGe(unknown) == unknown.num * HalfDen >= unknown.den
\* unknown > 0.5
HighUnknown(unknown) == unknown.num * HalfDen > unknown.den

PhixWarning == "PhiX control contamination detected - possible sequencing failure"
UnknownWarning == "High unknown content - organism may not be in reference set"

RECURSIVE Reverse(_)
Reverse(s) == IF Len(s) = 0 THEN <<>> ELSE Append(Reverse(Tail(s)), s[1])

MixtureWarningReversed(composition) ==
    Join("/", Reverse(Keys(composition))) \o " mixture detected"
\* f"{species_list} mixture detected"
MixtureWarning(composition) ==
    Join("/", Keys(composition)) \o " mixture detected"

\* warning: <<>> is None, <<text>> a message
Warning(composition, unknown) ==
    IF PhixContamination(composition) THEN <<PhixWarning>>
    ELSE IF CrossContamination(composition) THEN <<MixtureWarning(composition)>>
    ELSE IF HighUnknown(unknown) THEN <<UnknownWarning>>
    ELSE <<>>

EmptySketchError(source) ==
    [error |-> "Sketch is empty - no valid k-mers found", source |-> source]

\* The record _calculate_composition returns for a sketch of n hashes, where
\* commons lists, in the order of self.refs, each reference's name and
\* sketch.count_common(ref_sig.minhash).
CalculateComposition(n, commons, reads_sampled, source) ==
    IF n = 0 THEN EmptySketchError(source)
    ELSE
        LET composition == Composition(n, commons)
            unknown == Unknown(TotalExplained(n, commons))
            warning == Warning(composition, unknown)
            res == [source |-> source,
                    reads_sampled |-> reads_sampled,
                    composition_estimate |-> composition,
                    unknown_content |-> Round4(unknown),
                    is_mixed |-> IsMixed(composition),
                    is_contaminated |-> IsContaminated(composition)]
        IN  IF warning # <<>>
            THEN res @@ [contamination_warning |-> warning[1]]
            ELSE res

---------------------------------------------------------------------------
(* Direct calls of _calculate_composition: the sketch is given by its      *)
(* length and its common counts with each reference.                       *)

RefNames == {"Phix", "E Coli", "Human"}

\* larger lengths: 100 puts a containment exactly on 0.01 and on 0.05 and
\* the unknown fraction exactly on 0.5; at 1019 a containment just above
\* 0.05, and at 10001 an unknown fraction just above 0.5, rounds onto the
\* threshold
BoundaryLens == {100, 1019, 10001}

SampleLens == (0..MaxSmallLen) \cup BoundaryLens

\* common counts tried for a sketch of n hashes: all of them for a small
\* sketch, those around the thresholds for a large one
CommonCounts(n) ==
    IF n <= MaxSmallLen THEN 0..n
    ELSE {c \in ((n \div NoiseDen) - 1 .. (n \div NoiseDen) + 1)
                \cup ((n \div 20) - 1 .. (n \div 20) + 1)
                \cup ((n \div 2) - 1 .. (n \div 2) + 1)
                \cup {0, n} : c >= 0 /\ c <= n}

NameLists ==
    {s \in UNION {[1..k -> RefNames] : k \in 0..MaxRefs} :
        \A i, j \in 1..Len(s) : i # j => s[i] # s[j]}

CalcInputs ==
    UNION {
      UNION {
        {[len |-> n,
          commons |-> [i \in 1..Len(names) |->
                          [name |-> names[i], common |-> cs[i]]]] :
            cs \in [1..Len(names) -> CommonCounts(n)]} :
        names \in NameLists} :
      n \in SampleLens}

Idle ==
    /\ refs = <<>>
    /\ mode = "none"
    /\ read_limit = 0
    /\ batch = <<>>
    /\ sketch = {}
    /\ reads_seen = 0
    /\ pulled = 0
    /\ ref_dir_exists = TRUE
    /\ sig_files = <<>>
    /\ load_i = 0
    /\ stderr = <<>>
    /\ raised = "none"

NoCalcInput == [len |-> 0, commons |-> <<>>]

InitCalc ==
    /\ pc = "call"
    /\ result = Pending
    /\ calc_in \in CalcInputs
    /\ Idle

CalcCall ==
    /\ pc = "call"
    /\ result' = CalculateComposition(calc_in.len, calc_in.commons, 1, "sample")
    /\ pc' = "returned"
    /\ UNCHANGED <<calc_in, refs, mode, read_limit, batch, sketch, reads_seen,
                   pulled, ref_dir_exists, sig_files, load_i, stderr, raised>>

NextCalc == CalcCall

SpecCalc == InitCalc /\ [][NextCalc]_vars

---------------------------------------------------------------------------
(* inspect_file and inspect_url: the record loop over the line source.     *)

\* texts of a line; "+" holds no valid k-mer
LineTexts == {"+", "AAAA", "CCGG"}

\* a line as the source yields it: its text and the line break
RawLines == {<<t, "\n">> : t \in LineTexts}

\* line.strip()
Strip(line) == line[1]

\* the hashes sketch.add_sequence(seq, force=True) retains for seq
KmerHashes(seq) ==
    IF seq = "AAAA" THEN {1} ELSE IF seq = "CCGG" THEN {2} ELSE {}

\* sketch.add_sequence(seq, force=True): a set, so a hash is kept once
AddSequence(sk, seq) == sk \cup KmerHashes(seq)

\* sketch.count_common(ref_sig.minhash)
CountCommon(sk, sig) == Cardinality(sk \cap sig.hashes)

\* name and common count of each entry of self.refs, in its order
Commons(sk, rs) ==
    [i \in 1..Len(rs) |->
        [name |-> rs[i].name, common |-> CountCommon(sk, rs[i].sig)]]

Sig(origin, hashes) == [origin |-> origin, ksize |-> DefaultKsize, hashes |-> hashes]

\* reference libraries of a constructed agent
Libraries ==
    { <<[name |-> "Phix", sig |-> Sig("phix", {1})]>>,
      <<[name |-> "E Coli", sig |-> Sig("e_coli", {1, 2})]>>,
      <<[name |-> "Phix", sig |-> Sig("phix", {1})],
        [name |-> "E Coli", sig |-> Sig("e_coli", {2})]>>,
      <<[name |-> "E Coli", sig |-> Sig("e_coli", {1})],
        [name |-> "Human", sig |-> Sig("human", {1, 2})]>> }

\* what the source can raise: an I/O failure, a decompression failure
SourceExceptions == {"OSError", "BadGzipFile"}

SourceName(m) == IF m = "file" THEN "sample.fastq.gz" ELSE "https://host/sample.fastq.gz"

NotFoundResult(m) == [error |-> "File not found: " \o SourceName(m)]

ExceptionResultFallThrough(m, e) ==
    IF reads_seen = 0
    THEN [error |-> "No reads found"]
    ELSE CalculateComposition(Cardinality(sketch), Commons(sketch, refs),
                              reads_seen, SourceName(m))
\* except Exception as e: return {"error": ...}
ExceptionResult(m, e) ==
    IF m = "file"
    THEN [error |-> "Failed to process file: " \o e]
    ELSE [error |-> "Failed to stream from URL: " \o e]

NoReadsResult(m) ==
    IF m = "file"
    THEN [error |-> "No reads found in file"]
    ELSE [error |-> "No reads found in stream"]

LoaderIdle ==
    /\ ref_dir_exists = TRUE
    /\ sig_files = <<>>
    /\ load_i = 0
    /\ stderr = <<>>

Init ==
    /\ pc = "start"
    /\ result = Pending
    /\ calc_in = NoCalcInput
    /\ refs \in Libraries
    /\ mode \in {"file", "url"}
    /\ read_limit \in 0..MaxReadLimit
    /\ batch = <<>>
    /\ sketch = {}
    /\ reads_seen = 0
    /\ pulled = 0
    /\ raised = "none"
    /\ LoaderIdle

StreamFixed == <<calc_in, refs, mode, read_limit, ref_dir_exists, sig_files,
                 load_i, stderr>>

\* inspect_file: if not fastq_path.exists(): return {"error": ...}
FileNotFound ==
    /\ pc = "start"
    /\ mode = "file"
    /\ result' = NotFoundResult(mode)
    /\ pc' = "returned"
    /\ UNCHANGED <<batch, sketch, reads_seen, pulled, raised>>
    /\ UNCHANGED StreamFixed

\* the sketch is created and reads_seen = 0; the try block is entered
Begin ==
    /\ pc = "start"
    /\ sketch' = {}
    /\ reads_seen' = 0
    /\ pc' = "open"
    /\ UNCHANGED <<result, batch, pulled, raised>>
    /\ UNCHANGED StreamFixed

\* open_func(...) / requests.get, raise_for_status, gzip.open succeed
OpenSource ==
    /\ pc = "open"
    /\ batch' = <<>>
    /\ pc' = "loop"
    /\ UNCHANGED <<result, sketch, reads_seen, pulled, raised>>
    /\ UNCHANGED StreamFixed

\* the source raises: on opening it, or on a later read of the loop
SourceFails ==
    /\ pc \in {"open", "loop"}
    /\ \E e \in SourceExceptions :
          /\ raised' = e
          /\ result' = ExceptionResult(mode, e)
    /\ pc' = "returned"
    /\ UNCHANGED <<batch, sketch, reads_seen, pulled>>
    /\ UNCHANGED StreamFixed

\* one iteration of "for line in f"
PullLine ==
    /\ pc = "loop"
    /\ pulled < MaxLines
    /\ \E line \in RawLines :
          LET b == Append(batch, Strip(line))
          IN  IF Len(b) = RecordLines
              THEN /\ sketch' = AddSequence(sketch, b[2])
                   /\ batch' = <<>>
                   /\ reads_seen' = reads_seen + 1
                   /\ pc' = IF reads_seen + 1 >= read_limit THEN "after" ELSE "loop"
              ELSE /\ batch' = b
                   /\ UNCHANGED <<sketch, reads_seen, pc>>
    /\ pulled' = pulled + 1
    /\ UNCHANGED <<result, raised>>
    /\ UNCHANGED StreamFixed

\* the source is exhausted: the loop ends
SourceEnds ==
    /\ pc = "loop"
    /\ pc' = "after"
    /\ UNCHANGED <<result, batch, sketch, reads_seen, pulled, raised>>
    /\ UNCHANGED StreamFixed

\* after the try block: no reads, or the composition of the sketch
Finish ==
    /\ pc = "after"
    /\ result' = IF reads_seen = 0
                 THEN NoReadsResult(mode)
                 ELSE CalculateComposition(Cardinality(sketch),
                                           Commons(sketch, refs),
                                           reads_seen, SourceName(mode))
    /\ pc' = "returned"
    /\ UNCHANGED <<batch, sketch, reads_seen, pulled, raised>>
    /\ UNCHANGED StreamFixed

Next ==
    \/ FileNotFound
    \/ Begin
    \/ OpenSource
    \/ SourceFails
    \/ PullLine
    \/ SourceEnds
    \/ Finish

Spec == Init /\ [][Next]_vars

---------------------------------------------------------------------------
(* CompositionAgent.__init__ and _load_references. *)

LowerChars == <<"c", "e", "h", "i", "l", "o", "p", "x">>
UpperChars == <<"C", "E", "H", "I", "L", "O", "P", "X">>

IndexIn(chars, c) ==
    IF \E i \in 1..Len(chars) : chars[i] = c
    THEN CHOOSE i \in 1..Len(chars) : chars[i] = c
    ELSE 0

\* c.isupper() or c.islower()
IsCased(c) == IndexIn(LowerChars, c) > 0 \/ IndexIn(UpperChars, c) > 0

\* c.upper()
ToUpper(c) == IF IndexIn(LowerChars, c) > 0 THEN UpperChars[IndexIn(LowerChars, c)] ELSE c

\* c.lower()
ToLower(c) == IF IndexIn(UpperChars, c) > 0 THEN LowerChars[IndexIn(UpperChars, c)] ELSE c

\* str.replace('_', ' ')
ReplaceUnderscores(chars) ==
    [i \in 1..Len(chars) |-> IF chars[i] = "_" THEN " " ELSE chars[i]]

RECURSIVE TitleFrom(_, _)
\* str.title(): a cased character is upper-cased after an uncased one (or at
\* the start) and lower-cased after a cased one
TitleFrom(chars, prev_cased) ==
    IF Len(chars) = 0 THEN <<>>
    ELSE <<IF prev_cased THEN ToLower(chars[1]) ELSE ToUpper(chars[1])>>
             \o TitleFrom(Tail(chars), IsCased(chars[1]))

Title(chars) == TitleFrom(chars, FALSE)

\* name = sig_path.stem.replace('_', ' ').title()
NameOfStem(stem) == Join("", Title(ReplaceUnderscores(stem)))

\* stems of the .sig files a directory may hold
Stems ==
    { <<"p", "h", "i", "x">>,
      <<"P", "h", "i", "X">>,
      <<"e", "_", "c", "o", "l", "i">>,
      <<"E", " ", "c", "o", "l", "i">> }

\* a .sig file: its stem, whether it parses, the k-mer size and the hashes
\* of the signature it holds
SigFiles ==
    [stem : Stems, malformed : BOOLEAN, ksize : {21, DefaultKsize},
     hashes : {{1}, {1, 2}}]

\* a malformed file is malformed whatever it was meant to hold
FileVariants == {f \in SigFiles : f.malformed => (f.ksize = DefaultKsize /\ f.hashes = {1})}

\* directory listings: files of distinct names, in the order glob yields them
FileLists ==
    {fs \in UNION {[1..k -> FileVariants] : k \in 0..MaxFiles} :
        \A i, j \in 1..Len(fs) : i # j => fs[i].stem # fs[j].stem}

LoadsAnyKsize(file, ksize) == ~file.malformed
\* sourmash.load_one_signature(sig_path, ksize=self.ksize) succeeds
Loads(file, ksize) == ~file.malformed /\ file.ksize = ksize

\* the signature load_one_signature returns
SigOf(file) == [origin |-> file.stem, ksize |-> file.ksize, hashes |-> file.hashes]

\* self.refs[name] = sig on the insertion-ordered dict
Put(rs, name, sig) ==
    IF \E i \in 1..Len(rs) : rs[i].name = name
    THEN [i \in 1..Len(rs) |->
            IF rs[i].name = name THEN [name |-> name, sig |-> sig] ELSE rs[i]]
    ELSE Append(rs, [name |-> name, sig |-> sig])

\* if not self.refs: raise ValueError(...)
NoRefs(rs) == rs = <<>>

InitLoad ==
    /\ pc = "init"
    /\ result = Pending
    /\ calc_in = NoCalcInput
    /\ refs = <<>>
    /\ mode = "none"
    /\ read_limit = 0
    /\ batch = <<>>
    /\ sketch = {}
    /\ reads_seen = 0
    /\ pulled = 0
    /\ raised = "none"
    /\ ref_dir_exists \in BOOLEAN
    /\ sig_files \in FileLists
    /\ ref_dir_exists = FALSE => sig_files = <<>>
    /\ load_i = 0
    /\ stderr = <<>>

LoadFixed == <<calc_in, mode, read_limit, batch, reads_seen, pulled,
               ref_dir_exists, sig_files>>

\* __init__: if not self.ref_dir.exists(): raise FileNotFoundError
CheckRefDir ==
    /\ pc = "init"
    /\ IF ref_dir_exists
       THEN pc' = "glob" /\ UNCHANGED raised
       ELSE pc' = "raised" /\ raised' = "FileNotFoundError"
    /\ UNCHANGED <<result, refs, sketch, load_i, stderr>>
    /\ UNCHANGED LoadFixed

\* _load_references: the glob and the test that it found .sig files
GlobSigFiles ==
    /\ pc = "glob"
    /\ IF sig_files = <<>>
       THEN /\ pc' = "raised"
            /\ raised' = "FileNotFoundError"
            /\ UNCHANGED <<load_i, stderr>>
       ELSE /\ pc' = "load"
            /\ load_i' = 1
            /\ stderr' = Append(stderr, <<"Loading references">>)
            /\ UNCHANGED raised
    /\ UNCHANGED <<result, refs, sketch>>
    /\ UNCHANGED LoadFixed

\* one iteration of "for sig_path in sig_files"
LoadOne ==
    /\ pc = "load"
    /\ load_i <= Len(sig_files)
    /\ LET file == sig_files[load_i]
       IN  IF Loads(file, DefaultKsize)
           THEN /\ refs' = Put(refs, NameOfStem(file.stem), SigOf(file))
                /\ stderr' = Append(stderr, <<"Loaded", NameOfStem(file.stem)>>)
           ELSE /\ stderr' = Append(stderr, <<"Warning", Join("", file.stem)>>)
                /\ UNCHANGED refs
    /\ load_i' = load_i + 1
    /\ UNCHANGED <<pc, result, sketch, raised>>
    /\ UNCHANGED LoadFixed

\* after the loop: if not self.refs: raise ValueError, else the agent is ready
FinishLoad ==
    /\ pc = "load"
    /\ load_i > Len(sig_files)
    /\ IF NoRefs(refs)
       THEN pc' = "raised" /\ raised' = "ValueError" /\ UNCHANGED stderr
       ELSE /\ pc' = "ready"
            /\ stderr' = Append(stderr, <<"Agent ready", Len(refs)>>)
            /\ UNCHANGED raised
    /\ UNCHANGED <<result, refs, sketch, load_i>>
    /\ UNCHANGED LoadFixed

\* the constructed agent classifies a sample sketch
Analyze ==
    /\ pc = "ready"
    /\ \E sk \in (SUBSET {1, 2}) \ {{}} :
          /\ sketch' = sk
          /\ result' = CalculateComposition(Cardinality(sk), Commons(sk, refs),
                                            1, "sample")
    /\ pc' = "analyzed"
    /\ UNCHANGED <<refs, load_i, stderr, raised>>
    /\ UNCHANGED LoadFixed

NextLoad ==
    \/ CheckRefDir
    \/ GlobSigFiles
    \/ LoadOne
    \/ FinishLoad
    \/ Analyze

SpecLoad == InitLoad /\ [][NextLoad]_vars

---------------------------------------------------------------------------
(* Properties of _calculate_composition, stated on the arguments of the    *)
(* call and the record it returned.                                        *)

Returned == pc = "returned" /\ calc_in.len > 0 /\ "error" \notin DOMAIN result

HasWarning == "contamination_warning" \in DOMAIN result

\* reference i has containment |sample /\ ref| / |sample| above 0.01
KeptAt(i) == calc_in.commons[i].common * 100 > calc_in.len

KeptNames ==
    LET kept == SelectSeq([i \in 1..Len(calc_in.commons) |->
                              [name |-> calc_in.commons[i].name, keep |-> KeptAt(i)]],
                          LAMBDA e : e.keep)
    IN  [i \in 1..Len(kept) |-> kept[i].name]

RECURSIVE SumKeptFrom(_)
SumKeptFrom(i) ==
    IF i > Len(calc_in.commons) THEN 0
    ELSE (IF KeptAt(i) THEN calc_in.commons[i].common ELSE 0) + SumKeptFrom(i + 1)

RECURSIVE SumValues(_)
SumValues(s) == IF Len(s) = 0 THEN 0 ELSE s[1].value + SumValues(Tail(s))

\* the reference named "Phix" has containment above 0.05
PhixAboveFivePercent ==
    \E i \in 1..Len(calc_in.commons) :
        /\ calc_in.commons[i].name = "Phix"
        /\ calc_in.commons[i].common * 100 > 5 * calc_in.len

\* the PhiX rule of the code fired: the reported Phix value exceeds 0.05
PhixRuleFired == Get(result.composition_estimate, "Phix", 0) > 500

\* C1: whenever the reference named "Phix" has containment greater than
\* 0.05, the result has is_contaminated = true and the PhiX warning, also
\* when more than one reference is retained.
C1_PhixAboveThresholdFlagged ==
    (Returned /\ PhixAboveFivePercent) =>
        /\ result.is_contaminated
        /\ HasWarning
        /\ result.contamination_warning = PhixWarning

\* C2: whenever more than one reference is retained and the PhiX rule does
\* not fire, is_mixed and is_contaminated are true and the warning is the
\* retained names in mapping order joined by "/" followed by
\* " mixture detected"; and in every result is_contaminated is true exactly
\* when phix_contamination or cross_contamination holds.
C2_MixtureWarning ==
    Returned =>
        /\ (Len(KeptNames) > 1 /\ ~PhixRuleFired) =>
              /\ result.is_mixed
              /\ result.is_contaminated
              /\ HasWarning
              /\ result.contamination_warning =
                     Join("/", KeptNames) \o " mixture detected"
        /\ result.is_contaminated <=>
              (PhixRuleFired \/ (Len(KeptNames) > 1 /\ ~PhixRuleFired))

C2_Witness ==
    /\ Returned
    /\ Len(KeptNames) > 1
    /\ ~PhixRuleFired
    /\ KeptNames[1] = "Human"
    /\ result.contamination_warning = "Human/E Coli mixture detected"

NeitherRule == Returned /\ ~PhixRuleFired /\ Len(KeptNames) <= 1

\* C3 as claimed: when neither the PhiX rule nor the mixture rule fires,
\* the high-unknown warning is produced exactly when the reported
\* unknown_content is greater than 0.5, then with is_contaminated false;
\* otherwise the result carries no contamination_warning.
C3_WarningIffReportedUnknownHigh ==
    NeitherRule =>
        /\ (HasWarning /\ result.contamination_warning = UnknownWarning)
              <=> result.unknown_content > 5000
        /\ result.unknown_content > 5000 => ~result.is_contaminated
        /\ ~(result.unknown_content > 5000) => ~HasWarning

\* the unknown fraction before rounding, max(0, 1 - total_explained), is
\* greater than 0.5
RawUnknownHigh == 2 * Max(0, calc_in.len - SumKeptFrom(1)) > calc_in.len

\* C3 amended: when neither rule fires, the high-unknown warning is produced
\* exactly when the unknown fraction before rounding is greater than 0.5,
\* then with is_contaminated false; otherwise there is no
\* contamination_warning.
C3_WarningIffRawUnknownHigh ==
    NeitherRule =>
        /\ (HasWarning /\ result.contamination_warning = UnknownWarning)
              <=> RawUnknownHigh
        /\ RawUnknownHigh => ~result.is_contaminated
        /\ ~RawUnknownHigh => ~HasWarning

C3_Witness ==
    /\ NeitherRule
    /\ RawUnknownHigh
    /\ result.unknown_content = 5000
    /\ result.contamination_warning = UnknownWarning

\* C4 as claimed: unknown_content equals round(max(0, 1 - total), 4) where
\* total is the sum of the values of composition_estimate, and is never
\* negative.
C4_UnknownFromRoundedValues ==
    Returned =>
        /\ result.unknown_content =
               Max(0, 10000 - SumValues(result.composition_estimate))
        /\ result.unknown_content >= 0

\* C4 amended: unknown_content equals round(max(0, 1 - total), 4) where
\* total is the sum of the retained containments before rounding, and is
\* never negative, also when the sum exceeds 1.
C4_UnknownFromRawContainments ==
    Returned =>
        /\ result.unknown_content =
               Round4([num |-> Max(0, calc_in.len - SumKeptFrom(1)),
                       den |-> calc_in.len])
        /\ result.unknown_content >= 0

C4_Witness ==
    /\ Returned
    /\ SumKeptFrom(1) > calc_in.len
    /\ result.unknown_content = 0
    /\ Len(result.composition_estimate) = 2

\* C5: a reference name is a key of composition_estimate exactly when its
\* containment is strictly greater than 0.01, and every stored value lies
\* in [0, 1], being 1 when the reference contains the whole sample sketch.
C5_NoiseFloorAndBounds ==
    Returned =>
        /\ \A i \in 1..Len(calc_in.commons) :
              (\E j \in 1..Len(result.composition_estimate) :
                  result.composition_estimate[j].name = calc_in.commons[i].name)
              <=> KeptAt(i)
        /\ \A j \in 1..Len(result.composition_estimate) :
              /\ result.composition_estimate[j].value >= 0
              /\ result.composition_estimate[j].value <= 10000
        /\ \A i \in 1..Len(calc_in.commons) :
              calc_in.commons[i].common = calc_in.len =>
                  Get(result.composition_estimate, calc_in.commons[i].name, 0)
                      = 10000

C5_Witness ==
    /\ Returned
    /\ calc_in.len = 100
    /\ Len(calc_in.commons) = 2
    /\ calc_in.commons[1].common = 1
    /\ calc_in.commons[2].common = 100
    /\ Len(result.composition_estimate) = 1

---------------------------------------------------------------------------
(* Properties of inspect_file and inspect_url. *)

ResultFields ==
    {"source", "reads_sampled", "composition_estimate", "unknown_content",
     "is_mixed", "is_contaminated", "contamination_warning"}

RequiredFields == ResultFields \ {"contamination_warning"}

Done == pc = "returned" /\ mode \in {"file", "url"}

IsErrorOnly == DOMAIN result = {"error"}

IsComplete ==
    /\ RequiredFields \subseteq DOMAIN result
    /\ DOMAIN result \subseteq ResultFields

\* C6: for every read_limit (including 0) the record loop never adds more
\* than read_limit sequences to the sketch, reads_sampled never exceeds
\* read_limit, and no line is pulled once the count is reached.
C6_ReadLimitHonored ==
    mode \in {"file", "url"} =>
        /\ reads_seen <= read_limit
        /\ (Done /\ "reads_sampled" \in DOMAIN result) =>
              result.reads_sampled <= read_limit
        /\ Done => pulled <= RecordLines * read_limit

\* C7: an analysis that samples zero valid reads (read_limit is 0, the
\* source holds no complete record, or the sketch stays empty) returns a
\* record with an "error" field and none of the Composition Result fields.
C7_ZeroReadsStructuredError ==
    (Done /\ raised = "none" /\ result # NotFoundResult(mode)
          /\ (read_limit = 0 \/ reads_seen = 0 \/ sketch = {})) =>
        /\ "error" \in DOMAIN result
        /\ DOMAIN result \cap ResultFields = {}

IsEmptySketchError ==
    /\ DOMAIN result = {"error", "source"}
    /\ sketch = {}
    /\ reads_seen > 0

---------------------------------------------------------------------------
(* Properties of reference loading. *)

\* the file holds a well-formed signature of the requested k-mer size
FileOk(f) == ~f.malformed /\ f.ksize = 31

OkFiles == {i \in 1..Len(sig_files) : FileOk(sig_files[i])}

Constructed == pc \in {"ready", "analyzed"}

ConstructionFailed == pc = "raised"

\* C8: a signature file that fails to load (malformed, or of another k-mer
\* size) is skipped and is not in the library, while the remaining files are
\* still loaded; construction succeeds if at least one file loads, and fails
\* with an error, never yielding an agent with an empty library, when the
\* directory is missing, holds no .sig file, or every file fails to load.
C8_ReferenceLoading ==
    /\ Constructed =>
          /\ ref_dir_exists
          /\ OkFiles # {}
          /\ refs # <<>>
          /\ \A j \in 1..Len(refs) :
                \E i \in OkFiles :
                    /\ refs[j].sig.origin = sig_files[i].stem
                    /\ refs[j].sig.hashes = sig_files[i].hashes
                    /\ refs[j].sig.ksize = 31
          /\ \A i \in OkFiles :
                \E j \in 1..Len(refs) : refs[j].name = NameOfStem(sig_files[i].stem)
          /\ \A i \in 1..Len(sig_files) :
                ~FileOk(sig_files[i]) =>
                    \E k \in 1..Len(stderr) :
                        stderr[k] = <<"Warning", Join("", sig_files[i].stem)>>
    /\ ConstructionFailed =>
          /\ ~ref_dir_exists \/ sig_files = <<>> \/ OkFiles = {}
          /\ raised \in {"FileNotFoundError", "ValueError"}
    /\ (pc = "load" /\ load_i > Len(sig_files) /\ OkFiles # {}) => refs # <<>>

C8_Witness ==
    /\ pc = "ready"
    /\ Len(sig_files) = 2
    /\ ~sig_files[1].malformed
    /\ sig_files[1].ksize = 21
    /\ FileOk(sig_files[2])
    /\ Len(refs) = 1
    /\ refs[1].sig.origin = sig_files[2].stem

\* C10: name derivation is cosmetic: each file that loads without error has
\* its own entry in the reference library, so the library has as many
\* entries as files were loaded and containment is computed against each of
\* them, also when several file names normalize to the same label.
C10_OneEntryPerLoadedFile ==
    Constructed =>
        /\ Len(refs) = Cardinality(OkFiles)
        /\ \A i \in OkFiles :
              \E j \in 1..Len(refs) : refs[j].sig.origin = sig_files[i].stem
        /\ pc = "analyzed" => Len(Commons(sketch, refs)) = Cardinality(OkFiles)

====
